---- MODULE Spec2Model ----
(***************************************************************************)
(* Model of engine/src/conversion/error_reporter.rs: the fault-isolating   *)
(* conversion of a batch of Api records from one analysis phase to the     *)
(* next (convert_apis, convert_item_apis, report_any_error, api_or_error,  *)
(* ignored_item).                                                          *)
(*                                                                         *)
(* Vec::extend over a map(..).flatten() iterator is modelled at the        *)
(* granularity of the iterator protocol: the map closure runs for one      *)
(* input record (MapApi / MapItemApi), the records of the inner iterator   *)
(* it returned are pushed one at a time (Push), and the call returns when  *)
(* both the inner and the outer iterator are exhausted (Return).           *)
(***************************************************************************)
EXTENDS Integers, Sequences, FiniteSets, TLC

\* Bounds of the model.
MaxRecords == 2
MaxK == 2

----------------------------------------------------------------------------
\* Option<T>
None == [some |-> FALSE]

Some(x) == [some |-> TRUE, val |-> x]

\* The namespaces report_any_error is called with.
Namespaces == {<<>>, <<"ns">>}

\* QualifiedName: namespace path + local identifier.
QualifiedName(ns, id) == [ns |-> ns, id |-> id]

get_namespace(qn) == qn.ns

get_final_ident(qn) == qn.id

\* Display of a QualifiedName: every namespace segment followed by "::",
\* then the identifier.  A rendered string is a sequence of tokens.
RECURSIVE NsPrefix(_)
NsPrefix(ns) == IF ns = <<>> THEN <<>> ELSE <<Head(ns), "::">> \o NsPrefix(Tail(ns))

to_string(qn) == NsPrefix(qn.ns) \o <<qn.id>>

\* ApiName::new(ns, id): no C++ name override.
ApiName(ns, id) == [name |-> QualifiedName(ns, id), cpp_name |-> None]

\* ConvertError values and their Display rendering.
Errors == {"UnsupportedType", "UnknownType"}

ErrorMessage(err) == IF err = "UnsupportedType" THEN <<"unsupported", "type">> ELSE <<"unknown", "type">>

\* ErrorContext::Item(id), its identifier and its Display rendering.
ErrorContextItem(id) == [tag |-> "Item", id |-> id]

get_id(ctx) == ctx.id

ctx_to_string(ctx) == <<ctx.id>>

\* The contexts a failing rule attributes its error to.
Contexts == {ErrorContextItem("Bar")}

\* ConvertErrorWithContext(err, Option<ErrorContext>) as the Err side of a
\* Result; Ok carries the (lazily consumed) sequence of records or a value.
Ok(v) == [ok |-> TRUE, val |-> v]

Err(err, ctx) == [ok |-> FALSE, err |-> err, ctx |-> ctx]

----------------------------------------------------------------------------
\* The Api record variants.
PassThroughKinds == {"ConcreteType", "ForwardDeclaration", "StringConstructor", "Const", "CType", "RustType", "RustFn", "RustSubclassFn", "RustSubclassConstructor", "Subclass", "IgnoredItem"}

TransformableKinds == {"Enum", "Typedef", "Function", "Struct"}

Kinds == PassThroughKinds \cup TransformableKinds

\* A variant of ignored_item that names the placeholder in the root namespace.
ignored_item_RootNs(ns, ctx, err) == [kind |-> "IgnoredItem", name |-> ApiName(<<>>, get_id(ctx)), err |-> err, ctx |-> ctx]

\* ignored_item(ns, ctx, err)
ignored_item(ns, ctx, err) == [kind |-> "IgnoredItem", name |-> ApiName(ns, get_id(ctx)), err |-> err, ctx |-> ctx]

\* A phase-A record of the given kind and name whose payload fields all hold
\* the token v.
MkApi(kind, qn, v) ==
  LET n == ApiName(qn.ns, qn.id) IN
  CASE kind = "ConcreteType" -> [kind |-> kind, name |-> n, rs_definition |-> v, cpp_definition |-> v]
    [] kind = "ForwardDeclaration" -> [kind |-> kind, name |-> n]
    [] kind = "StringConstructor" -> [kind |-> kind, name |-> n]
    [] kind = "Const" -> [kind |-> kind, name |-> n, const_item |-> v]
    [] kind = "CType" -> [kind |-> kind, name |-> n, typename |-> v]
    [] kind = "RustType" -> [kind |-> kind, name |-> n, path |-> v]
    [] kind = "RustFn" -> [kind |-> kind, name |-> n, sig |-> v, path |-> v]
    [] kind = "RustSubclassFn" -> [kind |-> kind, name |-> n, subclass |-> v, details |-> v]
    [] kind = "RustSubclassConstructor" -> [kind |-> kind, name |-> n, subclass |-> v, cpp_impl |-> v, is_trivial |-> TRUE]
    [] kind = "Subclass" -> [kind |-> kind, name |-> n, superclass |-> v]
    [] kind = "IgnoredItem" -> [kind |-> kind, name |-> n, err |-> "UnknownType", ctx |-> ErrorContextItem(qn.id)]
    [] kind = "Enum" -> [kind |-> kind, name |-> n, item |-> v]
    [] kind = "Typedef" -> [kind |-> kind, name |-> n, item |-> v, old_tyname |-> None, analysis |-> "A"]
    [] kind = "Function" -> [kind |-> kind, name |-> n, fun |-> v, analysis |-> "A", name_for_gc |-> None]
    [] kind = "Struct" -> [kind |-> kind, name |-> n, item |-> v, analysis |-> "A"]

\* Api::name(): the QualifiedName inside the record's ApiName.
name(api) == api.name.name

\* The code never looks at a name to decide what to do with a record: the
\* input records are one per kind, half of them named ns::Foo and half Bar.
NamespacedKinds == {"ConcreteType", "Const", "RustType", "RustSubclassFn", "Subclass", "IgnoredItem", "Function", "Struct"}

InputName(kind) == IF kind \in NamespacedKinds THEN QualifiedName(<<"ns">>, "Foo") ELSE QualifiedName(<<>>, "Bar")

InApis == {MkApi(k, InputName(k), "v1") : k \in Kinds}

\* convert_item_apis never looks at the kind of a record: its inputs are
\* drawn from three of the kinds.
ItemKinds == {"Enum", "IgnoredItem", "Struct"}

InItemApis == {api \in InApis : api.kind \in ItemKinds}

\* The input batches (Vec<Api<A>>) of length at most n over the records S.
Batches(S, n) == UNION {[1..m -> S] : m \in 0..n}

----------------------------------------------------------------------------
\* What the conversion rules (collaborators) may return.

\* The j-th phase-B record a rule produces for the record api.
Produced(api, j) == [kind |-> IF api.kind = "IgnoredItem" THEN "Function" ELSE api.kind, name |-> api.name, nth |-> j, analysis |-> "B"]

Successes(api) == {Ok([j \in 1..k |-> Produced(api, j)]) : k \in 0..MaxK}

\* Result<Box<dyn Iterator<Item = Api<B>>>, ConvertErrorWithContext>
RuleOutcomes(api) == Successes(api) \cup {Err(e, c) : e \in Errors, c \in {None} \cup {Some(x) : x \in Contexts}}

\* Result<Box<dyn Iterator<Item = Api<B>>>, ConvertError>: the uniform rule
\* of convert_item_apis may also hand its input record back.
ItemOutcomes(api) == Successes(api) \cup {Ok(<<api>>)} \cup {[ok |-> FALSE, err |-> e] : e \in Errors}

\* Result<T, ConvertErrorWithContext> of the operation run by report_any_error.
FunOutcomes == {Ok("value")} \cup {Err(e, c) : e \in Errors, c \in {None} \cup {Some(x) : x \in Contexts}}

\* Marks an input record for which no rule was invoked.
NoRule == [ok |-> TRUE, norule |-> TRUE]

----------------------------------------------------------------------------
\* A variant of api_or_error that yields only the first record of a success.
api_or_error_First(tn, result) ==
  IF result.ok THEN [items |-> IF result.val = <<>> THEN <<>> ELSE <<Head(result.val)>>, lines |-> <<>>]
  ELSE IF ~result.ctx.some
    THEN [items |-> <<>>, lines |-> << <<"Ignored ">> \o to_string(tn) \o <<": ">> \o ErrorMessage(result.err) >>]
    ELSE [items |-> <<ignored_item(get_namespace(tn), result.ctx.val, result.err)>>,
          lines |-> << <<"Ignored ">> \o to_string(tn) \o <<": ">> \o ErrorMessage(result.err) >>]

\* A variant of api_or_error that writes no line for a failure without context.
api_or_error_Silent(tn, result) ==
  IF result.ok THEN [items |-> result.val, lines |-> <<>>]
  ELSE IF ~result.ctx.some
    THEN [items |-> <<>>, lines |-> <<>>]
    ELSE [items |-> <<ignored_item(get_namespace(tn), result.ctx.val, result.err)>>,
          lines |-> << <<"Ignored ">> \o to_string(tn) \o <<": ">> \o ErrorMessage(result.err) >>]

\* A variant of api_or_error whose lines leave out the record's name.
api_or_error_NoName(tn, result) ==
  IF result.ok THEN [items |-> result.val, lines |-> <<>>]
  ELSE IF ~result.ctx.some
    THEN [items |-> <<>>, lines |-> << <<"Ignored item: ">> \o ErrorMessage(result.err) >>]
    ELSE [items |-> <<ignored_item(get_namespace(tn), result.ctx.val, result.err)>>,
          lines |-> << <<"Ignored item: ">> \o ErrorMessage(result.err) >>]

\* api_or_error(name, api_or_error): the records to yield and the lines
\* written to stderr.
api_or_error(tn, result) ==
  IF result.ok THEN [items |-> result.val, lines |-> <<>>]
  ELSE IF ~result.ctx.some
    THEN [items |-> <<>>, lines |-> << <<"Ignored ">> \o to_string(tn) \o <<": ">> \o ErrorMessage(result.err) >>]
    ELSE [items |-> <<ignored_item(get_namespace(tn), result.ctx.val, result.err)>>,
          lines |-> << <<"Ignored ">> \o to_string(tn) \o <<": ">> \o ErrorMessage(result.err) >>]

\* A variant of Rule that hands placeholders to the struct rule.
Rule_Reconvert(kind) ==
  CASE kind = "Enum" -> "enum_conversion"
    [] kind = "Typedef" -> "typedef_conversion"
    [] kind = "Function" -> "func_conversion"
    [] kind = "Struct" -> "struct_conversion"
    [] kind = "IgnoredItem" -> "struct_conversion"
    [] OTHER -> "none"

\* The conversion rule convert_apis applies to a record of the given kind.
Rule(kind) ==
  CASE kind = "Enum" -> "enum_conversion"
    [] kind = "Typedef" -> "typedef_conversion"
    [] kind = "Function" -> "func_conversion"
    [] kind = "Struct" -> "struct_conversion"
    [] OTHER -> "none"

\* A variant of Unchanged whose Subclass arm builds a ForwardDeclaration.
Unchanged_Subclass(api) ==
  IF api.kind = "Subclass" THEN [kind |-> "ForwardDeclaration", name |-> api.name]
  ELSE [f \in DOMAIN api |-> api[f]]

\* The arms of the match in convert_apis that rebuild a record unchanged.
Unchanged(api) ==
  CASE api.kind = "ConcreteType" -> [kind |-> "ConcreteType", name |-> api.name, rs_definition |-> api.rs_definition, cpp_definition |-> api.cpp_definition]
    [] api.kind = "ForwardDeclaration" -> [kind |-> "ForwardDeclaration", name |-> api.name]
    [] api.kind = "StringConstructor" -> [kind |-> "StringConstructor", name |-> api.name]
    [] api.kind = "Const" -> [kind |-> "Const", name |-> api.name, const_item |-> api.const_item]
    [] api.kind = "CType" -> [kind |-> "CType", name |-> api.name, typename |-> api.typename]
    [] api.kind = "RustType" -> [kind |-> "RustType", name |-> api.name, path |-> api.path]
    [] api.kind = "RustFn" -> [kind |-> "RustFn", name |-> api.name, sig |-> api.sig, path |-> api.path]
    [] api.kind = "RustSubclassFn" -> [kind |-> "RustSubclassFn", name |-> api.name, subclass |-> api.subclass, details |-> api.details]
    [] api.kind = "RustSubclassConstructor" -> [kind |-> "RustSubclassConstructor", name |-> api.name, subclass |-> api.subclass, cpp_impl |-> api.cpp_impl, is_trivial |-> api.is_trivial]
    [] api.kind = "Subclass" -> [kind |-> "Subclass", name |-> api.name, superclass |-> api.superclass]
    [] api.kind = "IgnoredItem" -> [kind |-> "IgnoredItem", name |-> api.name, err |-> api.err, ctx |-> api.ctx]

\* The match in the closure of convert_apis: outcome is what the matching
\* rule returns when it is invoked.
Dispatch(api, outcome) == IF Rule(api.kind) = "none" THEN Ok(<<Unchanged(api)>>) ELSE outcome

\* A variant of map_err that attaches no context.
map_err_NoContext(tn, outcome) == IF outcome.ok THEN outcome ELSE Err(outcome.err, None)

\* The map_err in the closure of convert_item_apis.
map_err(tn, outcome) == IF outcome.ok THEN outcome ELSE Err(outcome.err, Some(ErrorContextItem(get_final_ident(tn))))

\* A variant of report_match that never pushes a placeholder.
report_match_NoPush(ns, outcome) ==
  IF outcome.ok THEN [ret |-> Some(outcome.val), pushed |-> <<>>, lines |-> <<>>]
  ELSE [ret |-> None, pushed |-> <<>>, lines |-> << <<"Ignored item: ">> \o ErrorMessage(outcome.err) >>]

\* The match in report_any_error: the returned Option, the records pushed
\* to apis and the lines written to stderr.
report_match(ns, outcome) ==
  IF outcome.ok THEN [ret |-> Some(outcome.val), pushed |-> <<>>, lines |-> <<>>]
  ELSE IF ~outcome.ctx.some
    THEN [ret |-> None, pushed |-> <<>>, lines |-> << <<"Ignored item: ">> \o ErrorMessage(outcome.err) >>]
    ELSE [ret |-> None, pushed |-> <<ignored_item(ns, outcome.ctx.val, outcome.err)>>,
          lines |-> << <<"Ignored item ">> \o ctx_to_string(outcome.ctx.val) \o <<": ">> \o ErrorMessage(outcome.err) >>]

----------------------------------------------------------------------------
VARIABLES pc, in_apis, frontiter, out_apis, log, ret, batch, out0, log0, nsarg, outcomes, calls, failures, carried, consumed

\* pc        the call in progress or the call that returned last
\* in_apis   the records the into_iter() of the running call still holds
\* frontiter the records the inner iterator held by flatten() still holds
\* out_apis  the caller's output collection
\* log       the lines written to stderr
\* ret       the Option returned by the last report_any_error
\* The rest records the history of the current call (batch, out0, log0,
\* nsarg: its arguments and the output and log at its entry; outcomes: what
\* the rule returned for each record consumed so far; calls: the rule
\* invocations) and of the whole run (failures: the failures returned by
\* rules and operations; carried: the IgnoredItem records that came in through
\* an input batch or a rule's success sequence; consumed: records consumed).
vars == <<pc, in_apis, frontiter, out_apis, log, ret, batch, out0, log0, nsarg, outcomes, calls, failures, carried, consumed>>

\* Number of IgnoredItem records in a sequence.
Placeholders(s) == Cardinality({i \in 1..Len(s) : s[i].kind = "IgnoredItem"})

Running == pc \in {"convert_apis", "convert_item_apis"}

\* A phase-B record the caller's collection holds before the first call.
Existing == [kind |-> "CType", name |-> ApiName(<<>>, "Foo"), typename |-> "v0"]

Init ==
  /\ pc = "idle"
  /\ in_apis = <<>>
  /\ frontiter = <<>>
  /\ out_apis = <<Existing>>
  /\ log = <<>>
  /\ ret = None
  /\ batch = <<>>
  /\ out0 = <<>>
  /\ log0 = <<>>
  /\ nsarg = <<>>
  /\ outcomes = <<>>
  /\ calls = <<>>
  /\ failures = <<>>
  /\ carried = 0
  /\ consumed = 0

\* Entry of a call: the bookkeeping common to the three entry points.
Enter(b) ==
  /\ ~Running
  /\ batch' = b
  /\ out0' = out_apis
  /\ log0' = log
  /\ calls' = <<>>

\* The map closure returns for one record: rest is what into_iter() still
\* holds, m what api_or_error returned, o the rule's outcome (call, fail and
\* carry record it in the history).
Yield(rest, m, o, call, fail, carry) ==
  /\ in_apis' = rest
  /\ frontiter' = m.items
  /\ log' = log \o m.lines
  /\ outcomes' = Append(outcomes, o)
  /\ calls' = calls \o call
  /\ failures' = failures \o fail
  /\ carried' = carried + carry
  /\ UNCHANGED <<pc, out_apis, ret, batch, out0, log0, nsarg, consumed>>

\* convert_apis(in_apis, out_apis, ...) is called.
ConvertApis ==
  \E b \in Batches(InApis, MaxRecords - consumed) :
    /\ Enter(b)
    /\ pc' = "convert_apis"
    /\ in_apis' = b
    /\ frontiter' = <<>>
    /\ outcomes' = <<>>
    /\ consumed' = consumed + Len(b)
    /\ UNCHANGED <<out_apis, log, ret, nsarg, failures, carried>>

\* A variant of MapApi in which a failing rule ends the iteration.
MapApiAbort ==
  /\ pc = "convert_apis"
  /\ frontiter = <<>>
  /\ in_apis # <<>>
  /\ LET api == Head(in_apis)
         tn == name(api)
     IN \E o \in (IF Rule(api.kind) = "none" THEN {NoRule} ELSE RuleOutcomes(api)) :
          Yield(IF o.ok THEN Tail(in_apis) ELSE <<>>, api_or_error(tn, Dispatch(api, o)), o,
                IF Rule(api.kind) = "none" THEN <<>> ELSE <<[rule |-> Rule(api.kind), pos |-> Len(outcomes) + 1]>>,
                IF o.ok THEN <<>> ELSE <<[src |-> "convert_apis", name |-> Some(tn), err |-> o.err, ctx |-> o.ctx]>>,
                IF o = NoRule THEN Placeholders(<<api>>) ELSE IF o.ok THEN Placeholders(o.val) ELSE 0)

\* A variant of MapApi in which the closure runs for the next record while
\* records of the previous one are still to be pushed.
MapApiEager ==
  /\ pc = "convert_apis"
  /\ in_apis # <<>>
  /\ LET api == Head(in_apis)
         tn == name(api)
     IN \E o \in (IF Rule(api.kind) = "none" THEN {NoRule} ELSE RuleOutcomes(api)) :
          LET m == api_or_error(tn, Dispatch(api, o)) IN
          Yield(Tail(in_apis), [items |-> frontiter \o m.items, lines |-> m.lines], o,
                IF Rule(api.kind) = "none" THEN <<>> ELSE <<[rule |-> Rule(api.kind), pos |-> Len(outcomes) + 1]>>,
                IF o.ok THEN <<>> ELSE <<[src |-> "convert_apis", name |-> Some(tn), err |-> o.err, ctx |-> o.ctx]>>,
                IF o = NoRule THEN Placeholders(<<api>>) ELSE IF o.ok THEN Placeholders(o.val) ELSE 0)

\* The map closure of convert_apis runs for the next input record: flatten()
\* asks for it only when its inner iterator is exhausted.
MapApi ==
  /\ pc = "convert_apis"
  /\ frontiter = <<>>
  /\ in_apis # <<>>
  /\ LET api == Head(in_apis)
         tn == name(api)
     IN \E o \in (IF Rule(api.kind) = "none" THEN {NoRule} ELSE RuleOutcomes(api)) :
          Yield(Tail(in_apis), api_or_error(tn, Dispatch(api, o)), o,
                IF Rule(api.kind) = "none" THEN <<>> ELSE <<[rule |-> Rule(api.kind), pos |-> Len(outcomes) + 1]>>,
                IF o.ok THEN <<>> ELSE <<[src |-> "convert_apis", name |-> Some(tn), err |-> o.err, ctx |-> o.ctx]>>,
                IF o = NoRule THEN Placeholders(<<api>>) ELSE IF o.ok THEN Placeholders(o.val) ELSE 0)

\* convert_item_apis(in_apis, out_apis, fun) is called.
ConvertItemApis ==
  \E b \in Batches(InItemApis, MaxRecords - consumed) :
    /\ Enter(b)
    /\ pc' = "convert_item_apis"
    /\ in_apis' = b
    /\ frontiter' = <<>>
    /\ outcomes' = <<>>
    /\ consumed' = consumed + Len(b)
    /\ UNCHANGED <<out_apis, log, ret, nsarg, failures, carried>>

\* The map closure of convert_item_apis runs for the next input record.
MapItemApi ==
  /\ pc = "convert_item_apis"
  /\ frontiter = <<>>
  /\ in_apis # <<>>
  /\ LET api == Head(in_apis)
         tn == name(api)
     IN \E o \in ItemOutcomes(api) :
          Yield(Tail(in_apis), api_or_error(tn, map_err(tn, o)), o,
                <<[rule |-> "fun", pos |-> Len(outcomes) + 1]>>,
                IF o.ok THEN <<>> ELSE <<[src |-> "convert_item_apis", name |-> Some(tn), err |-> o.err, ctx |-> None]>>,
                IF o.ok THEN Placeholders(o.val) ELSE 0)

\* Vec::extend pushes the next record of the inner iterator.
Push ==
  /\ Running
  /\ frontiter # <<>>
  /\ out_apis' = Append(out_apis, Head(frontiter))
  /\ frontiter' = Tail(frontiter)
  /\ UNCHANGED <<pc, in_apis, log, ret, batch, out0, log0, nsarg, outcomes, calls, failures, carried, consumed>>

\* Both iterators are exhausted: extend, and with it the call, returns.
Return ==
  /\ Running
  /\ frontiter = <<>>
  /\ in_apis = <<>>
  /\ pc' = IF pc = "convert_apis" THEN "done_apis" ELSE "done_items"
  /\ UNCHANGED <<in_apis, frontiter, out_apis, log, ret, batch, out0, log0, nsarg, outcomes, calls, failures, carried, consumed>>

\* report_any_error(ns, apis, fun)
ReportAnyError ==
  /\ consumed < MaxRecords
  /\ \E ns \in Namespaces, o \in FunOutcomes :
       LET r == report_match(ns, o) IN
         /\ Enter(<<>>)
         /\ nsarg' = ns
         /\ outcomes' = <<o>>
         /\ ret' = r.ret
         /\ out_apis' = out_apis \o r.pushed
         /\ log' = log \o r.lines
         /\ failures' = IF o.ok THEN failures
                        ELSE Append(failures, [src |-> "report_any_error", name |-> None, err |-> o.err, ctx |-> o.ctx])
  /\ pc' = "done_report"
  /\ consumed' = consumed + 1
  /\ UNCHANGED <<in_apis, frontiter, carried>>

Next == ConvertApis \/ MapApi \/ ConvertItemApis \/ MapItemApi \/ Push \/ Return \/ ReportAnyError

Spec == Init /\ [][Next]_vars

----------------------------------------------------------------------------
\* Vocabulary of the properties.

RECURSIVE Flatten(_)
Flatten(ss) == IF ss = <<>> THEN <<>> ELSE Head(ss) \o Flatten(Tail(ss))

\* line holds the tokens of part, contiguously.
Contains(line, part) == \E i \in 0..(Len(line) - Len(part)) : SubSeq(line, i + 1, i + Len(part)) = part

InApisCall == pc \in {"convert_apis", "done_apis"}

InItemsCall == pc \in {"convert_item_apis", "done_items"}

Done == pc \in {"done_apis", "done_items"}

\* A placeholder with the given namespace, identifier, error and context.
PlaceholderOf(ns, id, err, ctx) == [kind |-> "IgnoredItem", name |-> [name |-> [ns |-> ns, id |-> id], cpp_name |-> None], err |-> err, ctx |-> ctx]

\* The materialized result of the i-th input record of the current call.
Materialized(i) ==
  LET api == batch[i]
      o == outcomes[i]
  IN IF InItemsCall
       THEN IF o.ok THEN o.val
            ELSE <<PlaceholderOf(api.name.name.ns, api.name.name.id, o.err, [tag |-> "Item", id |-> api.name.name.id])>>
       ELSE IF o = NoRule THEN <<api>>
            ELSE IF o.ok THEN o.val
            ELSE IF o.ctx.some THEN <<PlaceholderOf(api.name.name.ns, o.ctx.val.id, o.err, o.ctx.val)>>
            ELSE <<>>

\* The materialized results of the first n input records, concatenated.
Expected(n) == Flatten([i \in 1..n |-> Materialized(i)])

\* The part of the output collection at the position of input record i.
Segment(i) == SubSeq(out_apis, Len(out0) + Len(Expected(i - 1)) + 1, Len(out0) + Len(Expected(i)))

\* The input positions whose rule failed, in input order.
RECURSIVE FailedUpTo(_)
FailedUpTo(n) == IF n = 0 THEN <<>> ELSE FailedUpTo(n - 1) \o (IF outcomes[n].ok THEN <<>> ELSE <<n>>)

\* The rule invocations of the current call are for the positions P, once
\* each and in input order.
InvokedOnceInOrder(P) ==
  /\ {calls[c].pos : c \in 1..Len(calls)} = P
  /\ \A c, d \in 1..Len(calls) : c < d => calls[c].pos < calls[d].pos

\* The rule that matches each transformable kind.
MatchingRule(kind) ==
  CASE kind = "Enum" -> "enum_conversion"
    [] kind = "Typedef" -> "typedef_conversion"
    [] kind = "Function" -> "func_conversion"
    [] kind = "Struct" -> "struct_conversion"

\* A failure that reaches the materializer with a context.
HasContext(f) == f.src = "convert_item_apis" \/ f.ctx.some

----------------------------------------------------------------------------
\* C1: fault isolation.  A call of convert_apis or convert_item_apis that has
\* returned has consumed all N input records whichever rules failed, has
\* invoked the rule for every record that has one (also after a failure of an
\* earlier record), and the result of every non-failing record is in the
\* output at the record's position.  A call that has not returned can always
\* take its next step, whatever failed before.
C1_FaultIsolation ==
  /\ Running => ENABLED (MapApi \/ MapItemApi \/ Push \/ Return)
  /\ Done =>
       /\ Len(outcomes) = Len(batch)
       /\ in_apis = <<>>
       /\ InvokedOnceInOrder({i \in 1..Len(batch) : pc = "done_items" \/ batch[i].kind \in TransformableKinds})
       /\ Len(out_apis) = Len(out0) + Len(Expected(Len(batch)))
       /\ \A i \in 1..Len(batch) :
            outcomes[i].ok => Segment(i) = (IF outcomes[i] = NoRule THEN <<batch[i]>> ELSE outcomes[i].val)

\* A returned convert_apis call whose first record failed with a context and
\* whose second record was converted to two records.
C1_Witness ==
  /\ pc = "done_apis"
  /\ Len(batch) = 2
  /\ ~outcomes[1].ok /\ outcomes[1].ctx.some
  /\ batch[2].kind = "Struct"
  /\ outcomes[2].ok /\ Len(outcomes[2].val) = 2
  /\ Len(out_apis) = Len(out0) + 3

\* C2: order preservation and expansion in convert_apis.  The output is its
\* content at entry followed by the materialized results of the records
\* consumed so far, in input order (less the records flatten() still holds);
\* when the call has returned it is the content at entry followed by the
\* materialized results of all the input records.
C2_OrderAndExpansion ==
  InApisCall =>
    /\ Len(outcomes) <= Len(batch)
    /\ out_apis \o frontiter = out0 \o Expected(Len(outcomes))
    /\ pc = "done_apis" => out_apis = out0 \o Expected(Len(batch))

\* A returned call with a non-empty output at entry, a first record converted
\* to two records and a second one passed through.
C2_Witness ==
  /\ pc = "done_apis"
  /\ out0 # <<>>
  /\ Len(batch) = 2
  /\ batch[1].kind = "Function" /\ outcomes[1].ok /\ Len(outcomes[1].val) = 2
  /\ batch[2].kind = "Const"
  /\ Len(out_apis) = Len(out0) + 3

\* C3: failure accounting.  The lines written are as many as the failures
\* returned by rules and operations, and the placeholders in the output (or
\* about to be pushed) beyond those that came in through an input batch or a
\* rule's success sequence are as many as the failures with a context.
C3_FailureAccounting ==
  /\ Len(log) = Len(failures)
  /\ Placeholders(out_apis \o frontiter) = carried + Cardinality({i \in 1..Len(failures) : HasContext(failures[i])})

\* Two failures of different entry points, one with and one without context.
C3_Witness ==
  /\ ~Running
  /\ Len(failures) = 2
  /\ failures[1].src = "report_any_error" /\ ~HasContext(failures[1])
  /\ failures[2].src = "convert_apis" /\ HasContext(failures[2])

\* C4: placeholder identity.  When the rule invoked last by convert_apis
\* failed with a context, the record api_or_error yielded is one placeholder
\* whose namespace is that of the failing record's name, whose identifier is
\* the context's, and which carries the rule's error and context.
C4_PlaceholderIdentity ==
  (pc = "convert_apis" /\ outcomes # <<>> /\ ~outcomes[Len(outcomes)].ok /\ outcomes[Len(outcomes)].ctx.some) =>
    LET o == outcomes[Len(outcomes)]
        api == batch[Len(outcomes)]
    IN /\ Len(out_apis \o frontiter) = Len(out0) + Len(Expected(Len(outcomes) - 1)) + 1
       /\ (out_apis \o frontiter)[Len(out_apis \o frontiter)] = PlaceholderOf(api.name.name.ns, o.ctx.val.id, o.err, o.ctx.val)

\* The rule for a record named ns::Foo failed with a context naming Bar and
\* the placeholder has been pushed.
C4_Witness ==
  /\ pc = "convert_apis"
  /\ outcomes # <<>>
  /\ frontiter = <<>>
  /\ ~outcomes[Len(outcomes)].ok /\ outcomes[Len(outcomes)].ctx.some
  /\ batch[Len(outcomes)].name.name = [ns |-> <<"ns">>, id |-> "Foo"]
  /\ outcomes[Len(outcomes)].ctx.val.id = "Bar"

\* C5: identity pass-through in convert_apis.  For a record of one of the
\* eleven pass-through kinds no rule is invoked and no line is written, and
\* once its result has been pushed the output holds, at its position, one
\* record equal to the input record.
C5_PassThrough ==
  InApisCall =>
    /\ Len(log) = Len(log0) + Len(FailedUpTo(Len(outcomes)))
    /\ \A i \in 1..Len(outcomes) :
         batch[i].kind \in PassThroughKinds =>
           /\ outcomes[i] = NoRule
           /\ \A c \in 1..Len(calls) : calls[c].pos # i
           /\ (i < Len(outcomes) \/ frontiter = <<>>) => Segment(i) = <<batch[i]>>

\* A returned call whose first record failed and whose second record is a
\* Subclass record.
C5_Witness ==
  /\ pc = "done_apis"
  /\ Len(batch) = 2
  /\ ~outcomes[1].ok
  /\ batch[2].kind = "Subclass"
  /\ out_apis[Len(out_apis)] = batch[2]

C7_ReportAnyError ==
  pc = "done_report" =>
    LET o == outcomes[1] IN
      /\ SubSeq(log, 1, Len(log0)) = log0
      /\ IF o.ok
           THEN ret = Some(o.val) /\ out_apis = out0 /\ log = log0
           ELSE /\ ret = None
                /\ Len(log) = Len(log0) + 1
                /\ out_apis = (IF o.ctx.some THEN Append(out0, PlaceholderOf(nsarg, o.ctx.val.id, o.err, o.ctx.val)) ELSE out0)

\* report_any_error has failed with a context, called with namespace ns and
\* a non-empty collection.
C7_Witness ==
  /\ pc = "done_report"
  /\ ~outcomes[1].ok /\ outcomes[1].ctx.some
  /\ nsarg = <<"ns">>
  /\ Len(out0) >= 2
  /\ Len(out_apis) = Len(out0) + 1

\* C8: convert_item_apis.  The uniform rule is invoked once on every record
\* consumed, in input order; the lines written are as many as the records
\* whose rule failed; and the output is its content at entry followed by the
\* materialized results in input order, where a failing record materializes to
\* one placeholder with the namespace and identifier of the record's name, the
\* error, and the context Item(identifier).
C8_ItemMapper ==
  InItemsCall =>
    /\ Len(outcomes) <= Len(batch)
    /\ InvokedOnceInOrder(1..Len(outcomes))
    /\ \A c \in 1..Len(calls) : calls[c].rule = "fun"
    /\ Len(log) = Len(log0) + Len(FailedUpTo(Len(outcomes)))
    /\ out_apis \o frontiter = out0 \o Expected(Len(outcomes))
    /\ pc = "done_items" => Len(outcomes) = Len(batch) /\ out_apis = out0 \o Expected(Len(batch))
    /\ \A i \in 1..Len(outcomes) :
         (~outcomes[i].ok /\ (i < Len(outcomes) \/ frontiter = <<>>)) =>
           /\ Len(Segment(i)) = 1
           /\ Segment(i)[1].kind = "IgnoredItem"
           /\ Segment(i)[1].name.name = name(batch[i])
           /\ Segment(i)[1].err = outcomes[i].err
           /\ Segment(i)[1].ctx = [tag |-> "Item", id |-> name(batch[i]).id]

\* A returned convert_item_apis call whose first record, a Struct named
\* ns::Foo, failed and whose second record was converted.
C8_Witness ==
  /\ pc = "done_items"
  /\ Len(batch) = 2
  /\ batch[1].kind = "Struct" /\ name(batch[1]) = [ns |-> <<"ns">>, id |-> "Foo"]
  /\ ~outcomes[1].ok
  /\ outcomes[2].ok /\ Len(outcomes[2].val) = 1
  /\ Len(out_apis) = Len(out0) + 2

\* The names a line about the failure f can attribute it to.
AttributedNames(f) == (IF f.name.some THEN {to_string(f.name.val)} ELSE {}) \cup (IF f.ctx.some THEN {<<f.ctx.val.id>>} ELSE {})

\* C9 as stated: every line written, for a failure with or without context,
\* includes the attributed name (the failing record's qualified name or the
\* context's identifier) and the error's rendered message.
C9_EveryLineNamesAndMessage ==
  /\ Len(log) = Len(failures)
  /\ \A i \in 1..Len(log) :
       /\ Contains(log[i], ErrorMessage(failures[i].err))
       /\ \E n \in AttributedNames(failures[i]) : Contains(log[i], n)

\* C9 amended: every line written includes the error's rendered message; a
\* line written by convert_apis or convert_item_apis includes the failing
\* record's qualified name, and a line written by report_any_error for a
\* failure with context includes the context's identifier (a line written by
\* report_any_error for a failure without context names nothing).
C9_LineContent ==
  /\ Len(log) = Len(failures)
  /\ \A i \in 1..Len(log) :
       /\ Contains(log[i], ErrorMessage(failures[i].err))
       /\ failures[i].src # "report_any_error" => Contains(log[i], to_string(failures[i].name.val))
       /\ (failures[i].src = "report_any_error" /\ failures[i].ctx.some) => Contains(log[i], <<failures[i].ctx.val.id>>)

\* A line of report_any_error for a failure with context followed by a line
\* of convert_apis for a record named ns::Foo.
C9_Witness ==
  /\ ~Running
  /\ Len(log) = 2
  /\ failures[1].src = "report_any_error" /\ failures[1].ctx.some
  /\ failures[2].src = "convert_apis" /\ failures[2].name.val = [ns |-> <<"ns">>, id |-> "Foo"]

\* C10: single-pass sequencing in convert_apis.  The rules invoked so far are
\* those of the transformable records consumed so far, once each and in input
\* order; when the rule of a record has returned, every record materialized
\* for the earlier input records is already in the output; and the lines
\* written by the call are those of the failing records, in input order.
C10_Sequencing ==
  InApisCall =>
    /\ InvokedOnceInOrder({i \in 1..Len(outcomes) : batch[i].kind \in TransformableKinds})
    /\ \A c \in 1..Len(calls) : calls[c].rule = MatchingRule(batch[calls[c].pos].kind)
    /\ outcomes # <<>> => Len(out_apis) >= Len(out0) + Len(Expected(Len(outcomes) - 1))
    /\ Len(log) = Len(log0) + Len(FailedUpTo(Len(outcomes)))
    /\ \A k \in 1..Len(FailedUpTo(Len(outcomes))) :
         LET i == FailedUpTo(Len(outcomes))[k] IN
           /\ Contains(log[Len(log0) + k], to_string(name(batch[i])))
           /\ Contains(log[Len(log0) + k], ErrorMessage(outcomes[i].err))

\* The rule of the second record has failed after the first record was
\* converted to two records, both already pushed.
C10_Witness ==
  /\ pc = "convert_apis"
  /\ Len(outcomes) = 2
  /\ outcomes[1].ok /\ outcomes[1] # NoRule /\ Len(outcomes[1].val) = 2
  /\ ~outcomes[2].ok
  /\ name(batch[1]) # name(batch[2])
  /\ Len(calls) = 2
  /\ Len(out_apis) >= Len(out0) + 2

====
